---- MODULE Spec2Model ----
(***************************************************************************)
(* The PettingZoo parallel wrapper of ml-agents-envs:                      *)
(*   UnityParallelEnv (unity_parallel_env.py) on top of                    *)
(*   UnityPettingzooBaseEnv (unity_pettingzoo_base_env.py) and the batch   *)
(*   translator _unwrap_batch_steps (env_helpers.py).                      *)
(* The wrapped BaseEnv is the environment: it records the calls it gets    *)
(* and hands out whatever decision and termination batches it likes.       *)
(* A string is the sequence of its tokens; the text "?agent_id=" is one     *)
(* token, and so is the decimal text of an id.                             *)
(***************************************************************************)
EXTENDS Integers, Sequences, FiniteSets, TLC

\* ------------------------------------------------------------ bounds
\* agent ids issued by the simulation are 0..MaxId
MaxId == 1
\* number of entries the simulation puts in all batches of one fetch
MaxAgents == 2
\* number of entries of an action mapping handed to step
MaxActions == 2
\* number of tokens of a behaviour name handed to the identity helpers
MaxNameLen == 2

\* ------------------------------------------------------------ behaviours
\* env.behavior_specs: "A" has a continuous action of size 2, no discrete
\* branch and two sensors; "B" has one discrete branch of size 3, no
\* continuous part and one sensor.
behavior_specs ==
    (<<"A">> :> [continuous_size |-> 2, discrete_branches |-> << >>, sensors |-> 2])
    @@ (<<"B">> :> [continuous_size |-> 0, discrete_branches |-> <<3>>, sensors |-> 1])

\* behavior_specs.keys(), in the order the dict iterates
BehaviorOrder == << <<"A">>, <<"B">> >>

Behaviors == {BehaviorOrder[i] : i \in 1..Len(BehaviorOrder)}

Ids == 0..MaxId

\* the ids the simulation issues in a group: group "A" holds up to MaxId + 1
\* agents, every other group a single one
IdsOf(behavior_name) == IF behavior_name = BehaviorOrder[1] THEN Ids ELSE {0}

\* f"{behavior_name}?agent_id={unique_id}"
_behavior_to_agent_id(behavior_name, unique_id) ==
    behavior_name \o <<"?agent_id=", ToString(unique_id)>>

\* agent_id.split("?agent_id=")[0]: what stands before the first marker, the
\* whole string when it holds none
_agent_id_to_behavior(agent_id) ==
    LET at == {i \in 1..Len(agent_id) : agent_id[i] = "?agent_id="}
    IN  IF at = {} THEN agent_id
        ELSE SubSeq(agent_id, 1, (CHOOSE i \in at : \A j \in at : i <= j) - 1)

AllAgents == UNION {{_behavior_to_agent_id(b, n) : n \in IdsOf(b)} : b \in Behaviors}

\* no agent (where an identity is expected)
NoAgent == << >>

\* no behaviour (where a behaviour name is expected)
NoBehavior == <<"-">>

\* ------------------------------------------------------------ helpers
Range(s) == {s[i] : i \in 1..Len(s)}

\* dict.update(g) on f
Upd(f, g) ==
    [k \in (DOMAIN f) \cup (DOMAIN g) |-> IF k \in DOMAIN g THEN g[k] ELSE f[k]]

\* del f[k]
Del(f, k) == [x \in (DOMAIN f) \ {k} |-> f[x]]

EmptyDict == [k \in {} |-> 0]

\* list.remove(x): the first occurrence goes (x is in the list)
RECURSIVE ListRemove(_, _)
ListRemove(s, x) ==
    IF s = << >> THEN << >>
    ELSE IF Head(s) = x THEN Tail(s)
    ELSE <<Head(s)>> \o ListRemove(Tail(s), x)

\* the order of the identity strings: the behaviour name decides, then the id
\* (ids are single digits, so the decimal text sorts as the number does)
AgentRank(a) ==
    (CHOOSE i \in 1..Len(BehaviorOrder) : BehaviorOrder[i] = _agent_id_to_behavior(a)) * 10
        + (CHOOSE n \in Ids : ToString(n) = a[Len(a)])

RECURSIVE SortInsert(_, _)
SortInsert(s, x) ==
    IF s = << >> THEN <<x>>
    ELSE IF AgentRank(x) < AgentRank(Head(s)) THEN <<x>> \o s
    ELSE <<Head(s)>> \o SortInsert(Tail(s), x)

\* list.sort() / sorted()
RECURSIVE Sorted(_)
Sorted(s) ==
    IF s = << >> THEN << >> ELSE SortInsert(Sorted(Tail(s)), Head(s))

IsSorted(s) == \A i \in 1..(Len(s) - 1) : AgentRank(s[i]) <= AgentRank(s[i + 1])

\* ------------------------------------------------------------ the simulation
\* What get_steps hands out for one behaviour group: a decision batch and a
\* termination batch, each a list of entries whose agent ids are unique within
\* that batch.  An id may be in both batches of one fetch (an agent that ended
\* its episode and asked for a decision in the same simulation step).
\* The rewards of decision entries and of termination entries; the agent with
\* the highest id ends by interruption, the others end naturally.
DecisionRewards == {1}

TerminalRewards == {2}

DecisionEntries(behavior_name) ==
    {[agent_id |-> n, reward |-> r] : n \in IdsOf(behavior_name), r \in DecisionRewards}

TerminalEntries(behavior_name) ==
    {[agent_id |-> n, reward |-> r, interrupted |-> (n = MaxId)] :
        n \in IdsOf(behavior_name), r \in TerminalRewards}

UniqueIds(s) == \A i, j \in 1..Len(s) : i # j => s[i].agent_id # s[j].agent_id

BatchesOf(entries, n) == {s \in [1..n -> entries] : UniqueIds(s)}

\* the (decision, termination) pairs of one group holding n entries in all
BehaviorSteps(behavior_name, n) ==
    UNION {
        {[decision |-> d, terminal |-> t] :
            d \in BatchesOf(DecisionEntries(behavior_name), k),
            t \in BatchesOf(TerminalEntries(behavior_name), n - k)}
        : k \in 0..n}

\* the answers to get_steps of groups i.. that hold at most `room` entries
RECURSIVE StepsFrom(_, _)
StepsFrom(i, room) ==
    IF i > Len(BehaviorOrder) THEN {EmptyDict}
    ELSE UNION {
            {Upd(rest, [b \in {BehaviorOrder[i]} |-> mine]) :
                mine \in BehaviorSteps(BehaviorOrder[i], n),
                rest \in StepsFrom(i + 1, room - n)}
            : n \in 0..room}

\* every answer the simulation may give to one round of get_steps
SimSteps == StepsFrom(1, MaxAgents)

NoSteps == [b \in Behaviors |-> [decision |-> << >>, terminal |-> << >>]]

\* the payload of sensor k for the batch entry of agent n (obs[k][i])
SensorPayload(behavior_name, k, n) == <<behavior_name, k, n>>

\* decision_batch.action_mask is None unless the group has discrete branches
HasActionMask(behavior_name) ==
    Len(behavior_specs[behavior_name].discrete_branches) > 0

\* the mask of discrete branch k for the batch entry of agent n
MaskPayload(behavior_name, k, n) == <<"mask", behavior_name, k, n>>

\* ------------------------------------------------------------ env_helpers.py
_preprocess_single(single_visual_obs, uint8_visual) == single_visual_obs

\* position in a batch of the entry of identity a (ids are unique within a
\* batch)
SlotOf(batch, behavior_name, a) ==
    CHOOSE i \in 1..Len(batch) :
        _behavior_to_agent_id(behavior_name, batch[i].agent_id) = a

\* {agent_id: val(i) for i, agent_id in enumerate(ids of batch)}
BatchDict(batch, behavior_name, val(_)) ==
    [a \in {_behavior_to_agent_id(behavior_name, batch[i].agent_id) : i \in 1..Len(batch)}
        |-> val(SlotOf(batch, behavior_name, a))]

\* obs = {k: v if len(v) > 1 else v[0] ...}: a list of one payload becomes the
\* payload; the {"observation", "action_mask"} dict has two keys and stays
CollapseList(v) == IF Len(v) > 1 THEN v ELSE v[1]

CollapseDict(v) == IF Cardinality(DOMAIN v) > 1 THEN v ELSE v.observation

_unwrap_batch_steps(batch_steps, behavior_name, uint8_visual) ==
    LET decision_batch == batch_steps.decision
        termination_batch == batch_steps.terminal
        nsensors == behavior_specs[behavior_name].sensors
        nbranches == Len(behavior_specs[behavior_name].discrete_branches)
        decision_id == [i \in 1..Len(decision_batch) |->
                          _behavior_to_agent_id(behavior_name, decision_batch[i].agent_id)]
        termination_id == [i \in 1..Len(termination_batch) |->
                          _behavior_to_agent_id(behavior_name, termination_batch[i].agent_id)]
        TermObs(i) == CollapseList(
            [k \in 1..nsensors |->
                SensorPayload(behavior_name, k, termination_batch[i].agent_id)])
        DecList(i) ==
            [k \in 1..nsensors |->
                _preprocess_single(
                    SensorPayload(behavior_name, k, decision_batch[i].agent_id),
                    uint8_visual)]
        DecObs(i) ==
            IF HasActionMask(behavior_name)
            THEN CollapseDict(
                    [observation |-> DecList(i),
                     action_mask |-> [k \in 1..nbranches |->
                        MaskPayload(behavior_name, k, decision_batch[i].agent_id)]])
            ELSE CollapseList(DecList(i))
        DecInfo(i) == [behavior_name |-> behavior_name,
                       group_id |-> 0, group_reward |-> 0]
        TermInfo(i) == [behavior_name |-> behavior_name,
                        group_id |-> 0, group_reward |-> 0,
                        interrupted |-> termination_batch[i].interrupted]
        TermTrue(i) == TRUE
        DecFalse(i) == FALSE
        TermReward(i) == termination_batch[i].reward
        DecReward(i) == decision_batch[i].reward
        DecIndex(i) == i - 1
        rewards == Upd(BatchDict(termination_batch, behavior_name, TermReward),
                       BatchDict(decision_batch, behavior_name, DecReward))
    IN  [agents |-> decision_id \o termination_id,
         obs |-> Upd(BatchDict(termination_batch, behavior_name, TermObs),
                     BatchDict(decision_batch, behavior_name, DecObs)),
         terminations |-> Upd(BatchDict(termination_batch, behavior_name, TermTrue),
                              BatchDict(decision_batch, behavior_name, DecFalse)),
         rewards |-> rewards,
         cumulative_rewards |-> rewards,
         infos |-> Upd(BatchDict(decision_batch, behavior_name, DecInfo),
                       BatchDict(termination_batch, behavior_name, TermInfo)),
         id_map |-> BatchDict(decision_batch, behavior_name, DecIndex)]

\* ------------------------------------------------------------ action spaces
\* _update_action_spaces: the gym space of a behaviour group
ActionSpace(behavior_name) ==
    LET act_spec == behavior_specs[behavior_name]
        discrete_size == Len(act_spec.discrete_branches)
    IN  IF discrete_size = 1 /\ act_spec.continuous_size = 0
        THEN [kind |-> "Discrete", n |-> act_spec.discrete_branches[1]]
        ELSE IF discrete_size > 0 /\ act_spec.continuous_size = 0
        THEN [kind |-> "MultiDiscrete", nvec |-> act_spec.discrete_branches]
        ELSE IF act_spec.continuous_size > 0 /\ discrete_size = 0
        THEN [kind |-> "Box", low |-> -1, high |-> 1, size |-> act_spec.continuous_size]
        ELSE [kind |-> "Tuple"]

\* What a caller hands in for one agent: None, a scalar or a flat vector.
NoneAction == [kind |-> "none", scalar |-> 0, vector |-> << >>]

ScalarAction(v) == [kind |-> "scalar", scalar |-> v, vector |-> << >>]

VectorAction(v) == [kind |-> "vector", scalar |-> 0, vector |-> v]

\* the actions a caller may hand in for an agent of a group: one inside the
\* space, one outside it, and None
ActionInputs(behavior_name) ==
    LET space == ActionSpace(behavior_name)
    IN  IF space.kind = "Discrete"
        THEN {NoneAction, ScalarAction(space.n - 1), ScalarAction(space.n)}
        ELSE {NoneAction,
              VectorAction([j \in 1..space.size |-> IF j = 1 THEN space.high ELSE space.low]),
              VectorAction([j \in 1..space.size |-> space.high + 1])}

\* the values handed in are already of the space's dtype
_action_to_np(current_action_space, action) == action

\* current_action_space.contains(action)
Contains(space, action) ==
    CASE space.kind = "Discrete" ->
            action.kind = "scalar" /\ 0 <= action.scalar /\ action.scalar < space.n
      [] space.kind = "MultiDiscrete" ->
            /\ action.kind = "vector"
            /\ Len(action.vector) = Len(space.nvec)
            /\ \A j \in 1..Len(space.nvec) :
                  0 <= action.vector[j] /\ action.vector[j] < space.nvec[j]
      [] space.kind = "Box" ->
            /\ action.kind = "vector"
            /\ Len(action.vector) = space.size
            /\ \A j \in 1..space.size :
                  space.low <= action.vector[j] /\ action.vector[j] <= space.high
      [] OTHER -> FALSE

\* What _process_action assigns to the agent's rows of the pending buffer:
\* action.continuous[0] and action.discrete[0] of the ActionTuple built from
\* the action, stretched over the row as numpy's assignment does.  For a
\* Discrete space the tuple holds the (1, 1) array, whose row 0 is [v]; for
\* Box and MultiDiscrete it holds the flat vector, whose element 0 is a number.
ActionRows(space, action, a_spec) ==
    LET nd == Len(a_spec.discrete_branches)
    IN  CASE space.kind = "Discrete" ->
                [continuous |-> [j \in 1..a_spec.continuous_size |-> 0],
                 discrete |-> [j \in 1..nd |-> action.scalar]]
          [] space.kind = "MultiDiscrete" ->
                [continuous |-> [j \in 1..a_spec.continuous_size |-> 0],
                 discrete |-> [j \in 1..nd |-> action.vector[1]]]
          [] OTHER ->
                [continuous |-> [j \in 1..a_spec.continuous_size |-> action.vector[1]],
                 discrete |-> [j \in 1..nd |-> 0]]

\* _create_empty_actions
_create_empty_actions(behavior_name, num_agents) ==
    LET a_spec == behavior_specs[behavior_name]
    IN  [continuous |-> [i \in 1..num_agents |-> [j \in 1..a_spec.continuous_size |-> 0]],
         discrete |-> [i \in 1..num_agents |->
                          [j \in 1..Len(a_spec.discrete_branches) |-> 0]]]

\* ------------------------------------------------------------ the wrapper
\* The fields of UnityPettingzooBaseEnv.  _env is TRUE while the wrapped
\* environment is held (not None).  The wrapped environment itself is `sim`,
\* the batches it currently answers get_steps with, and `env_calls`, the calls
\* it has received from the handler that ran last.
\*
\* reset and step return the mapping objects the fields refer to, not copies.
\* `caller` is the caller's side of that: `holds` names the fields whose
\* present object was returned by an earlier call, and `changed` holds, for
\* each mapping the caller held that the last call left different from what
\* it was before the call, the mapping as it is now.
VARIABLES _env, _live_agents, _agents, _possible_agents, _agent_id_to_index,
          _observations, _terminations, _truncations, _rewards, _cumm_rewards,
          _infos, _current_action, sim, env_calls, op, probe, caller

vars == <<_env, _live_agents, _agents, _possible_agents, _agent_id_to_index,
          _observations, _terminations, _truncations, _rewards, _cumm_rewards,
          _infos, _current_action, sim, env_calls, op, probe, caller>>

\* the object as a record: what a handler works on, statement by statement;
\* err is the exception that ended it ("none": it returned) and raised_for
\* the agent whose entry _process_action was working on when it raised
Self ==
    [_env |-> _env, _live_agents |-> _live_agents, _agents |-> _agents,
     _possible_agents |-> _possible_agents,
     _agent_id_to_index |-> _agent_id_to_index,
     _observations |-> _observations, _terminations |-> _terminations,
     _truncations |-> _truncations, _rewards |-> _rewards,
     _cumm_rewards |-> _cumm_rewards, _infos |-> _infos,
     _current_action |-> _current_action, sim |-> sim,
     env_calls |-> << >>, err |-> "none", raised_for |-> NoAgent,
     held |-> caller.holds, left |-> EmptyDict]

Raise(s, e) == [s EXCEPT !.err = e]

\* one call received by the wrapped environment
EnvCall(name, behavior_name, action) ==
    [call |-> name, behavior |-> behavior_name, action |-> action]

NoBuffer == [continuous |-> << >>, discrete |-> << >>]

Called(s, c) == [s EXCEPT !.env_calls = Append(@, c)]

\* `self.<field> = <new mapping>` for each of `fields`: the objects the fields
\* referred to stay as they are from here on.  held names the fields that
\* still refer to an object the caller was given, left keeps what the others
\* of those objects held when the handler let go of them.
Rebind(s, fields) ==
    [s EXCEPT !.left = Upd(@, [f \in s.held \cap fields |-> s[f]]),
              !.held = @ \ fields]

Rebound == {"_observations", "_terminations", "_truncations", "_rewards",
            "_cumm_rewards", "_infos"}

\* _reset_states, were it to clear the possible-agent set too
_reset_states_forgets(s) ==
    [Rebind(s, Rebound) EXCEPT !._live_agents = << >>, !._agents = << >>,
              !._observations = EmptyDict, !._terminations = EmptyDict,
              !._truncations = EmptyDict, !._rewards = EmptyDict,
              !._cumm_rewards = EmptyDict, !._infos = EmptyDict,
              !._agent_id_to_index = EmptyDict, !._possible_agents = {}]

\* _reset_states
_reset_states(s) ==
    [Rebind(s, Rebound) EXCEPT !._live_agents = << >>, !._agents = << >>,
              !._observations = EmptyDict, !._terminations = EmptyDict,
              !._truncations = EmptyDict, !._rewards = EmptyDict,
              !._cumm_rewards = EmptyDict, !._infos = EmptyDict,
              !._agent_id_to_index = EmptyDict]

\* _batch_update, were it to keep a buffer the group already has
MergeBatch_keeps_buffer(s, behavior_name, current_batch, u) ==
    [s EXCEPT
        !._current_action =
            IF behavior_name \in DOMAIN @ THEN @
            ELSE Upd(@, [b \in {behavior_name} |->
                      _create_empty_actions(behavior_name, Len(current_batch.decision))]),
        !._live_agents = @ \o u.agents,
        !._agents = @ \o u.agents,
        !._observations = Upd(@, u.obs),
        !._infos = Upd(@, u.infos),
        !._agent_id_to_index = Upd(@, u.id_map),
        !._possible_agents = @ \cup Range(u.agents)]

\* _batch_update, after the fetch: the translated batch u is merged in
MergeBatch(s, behavior_name, current_batch, u) ==
    [s EXCEPT
        !._current_action =
            Upd(@, [b \in {behavior_name} |->
                      _create_empty_actions(behavior_name, Len(current_batch.decision))]),
        !._live_agents = @ \o u.agents,
        !._agents = @ \o u.agents,
        !._observations = Upd(@, u.obs),
        !._infos = Upd(@, u.infos),
        !._agent_id_to_index = Upd(@, u.id_map),
        !._possible_agents = @ \cup Range(u.agents)]

\* what _batch_update returns: (terminations, rewards, cumulative_rewards)
BatchResult(s, behavior_name) ==
    _unwrap_batch_steps(s.sim[behavior_name], behavior_name, FALSE)

\* _batch_update: what it does to the object
_batch_update(s, behavior_name) ==
    MergeBatch(Called(s, EnvCall("get_steps", behavior_name, NoBuffer)),
               behavior_name, s.sim[behavior_name], BatchResult(s, behavior_name))

\* del self._observations[a] ... del self._infos[a], in this order
DeletedFrom == <<"_observations", "_terminations", "_truncations", "_rewards",
                 "_cumm_rewards", "_infos">>

RECURSIVE DeleteEntries(_, _, _)
DeleteEntries(s, current_agent, i) ==
    IF i > Len(DeletedFrom) THEN s
    ELSE IF current_agent \notin DOMAIN s[DeletedFrom[i]] THEN Raise(s, "KeyError")
    ELSE DeleteEntries([s EXCEPT ![DeletedFrom[i]] = Del(@, current_agent)],
                       current_agent, i + 1)

\* the else branch of _process_action: the agent leaves the live list and
\* its entry is deleted from the six mappings, one statement after the other
RemoveFlagged(s, current_agent) ==
    IF current_agent \notin Range(s._live_agents) THEN Raise(s, "ValueError")
    ELSE DeleteEntries([s EXCEPT !._live_agents = ListRemove(@, current_agent)],
                       current_agent, 1)

\* the if branch of _process_action: the action goes into the agent's slot
WriteAction(s, current_agent, action) ==
    LET current_behavior == _agent_id_to_behavior(current_agent)
        space == ActionSpace(current_behavior)
    IN  IF current_agent \notin DOMAIN s._agent_id_to_index THEN Raise(s, "KeyError")
        ELSE IF action.kind = "none" THEN Raise(s, "AttributeError")
        ELSE IF current_behavior \notin DOMAIN s._current_action THEN Raise(s, "KeyError")
        ELSE
        LET current_index == s._agent_id_to_index[current_agent]
            rows == ActionRows(space, action, behavior_specs[current_behavior])
        IN  IF current_index >= Len(s._current_action[current_behavior].continuous)
            THEN Raise(s, "IndexError")
            ELSE [s EXCEPT
                    !._current_action[current_behavior].continuous[current_index + 1] =
                        rows.continuous,
                    !._current_action[current_behavior].discrete[current_index + 1] =
                        rows.discrete]

\* `self._terminations[a] or self._truncations[a]` can be evaluated
FlagsReadable(s, a) ==
    /\ a \in DOMAIN s._terminations
    /\ (s._terminations[a] \/ a \in DOMAIN s._truncations)

Flagged(s, a) == s._terminations[a] \/ s._truncations[a]

\* _process_action, were it to look at the flags before it validates
_process_action_flags_first(s, current_agent, action) ==
    IF _agent_id_to_behavior(current_agent) \notin Behaviors THEN Raise(s, "KeyError")
    ELSE
    LET current_action_space == ActionSpace(_agent_id_to_behavior(current_agent))
    IN  IF ~FlagsReadable(s, current_agent) THEN Raise(s, "KeyError")
        ELSE IF Flagged(s, current_agent) THEN RemoveFlagged(s, current_agent)
        ELSE IF /\ action.kind # "none"
                /\ ~Contains(current_action_space, _action_to_np(current_action_space, action))
        THEN Raise(s, "InvalidAction")
        ELSE WriteAction(s, current_agent, action)

\* _process_action, were it to skip the entry of an agent it has no flags for
_process_action_skips_unknown(s, current_agent, action) ==
    IF _agent_id_to_behavior(current_agent) \notin Behaviors THEN Raise(s, "KeyError")
    ELSE
    LET current_action_space == ActionSpace(_agent_id_to_behavior(current_agent))
    IN  IF /\ action.kind # "none"
           /\ ~Contains(current_action_space, _action_to_np(current_action_space, action))
        THEN Raise(s, "InvalidAction")
        ELSE IF ~FlagsReadable(s, current_agent) THEN s
        ELSE IF ~Flagged(s, current_agent) THEN WriteAction(s, current_agent, action)
        ELSE RemoveFlagged(s, current_agent)

\* _process_action
_process_action(s, current_agent, action) ==
    IF _agent_id_to_behavior(current_agent) \notin Behaviors THEN Raise(s, "KeyError")
    ELSE
    LET current_action_space == ActionSpace(_agent_id_to_behavior(current_agent))
    IN  IF /\ action.kind # "none"
           /\ ~Contains(current_action_space, _action_to_np(current_action_space, action))
        THEN Raise(s, "InvalidAction")
        ELSE IF ~FlagsReadable(s, current_agent) THEN Raise(s, "KeyError")
        ELSE IF ~Flagged(s, current_agent) THEN WriteAction(s, current_agent, action)
        ELSE RemoveFlagged(s, current_agent)

\* for current_agent, action in actions.items(): self._process_action(...)
RECURSIVE ProcessActions(_, _)
AfterEntry(s1, actions) ==
    IF s1.err # "none" THEN [s1 EXCEPT !.raised_for = Head(actions)[1]]
    ELSE ProcessActions(s1, Tail(actions))

ProcessActions(s, actions) ==
    IF actions = << >> THEN s
    ELSE AfterEntry(_process_action(s, Head(actions)[1], Head(actions)[2]), actions)

\* for behavior_name, actions in self._current_action.items(): set_actions
RECURSIVE SetActions(_, _)
SetActions(s, i) ==
    IF i > Len(BehaviorOrder) THEN s
    ELSE IF BehaviorOrder[i] \in DOMAIN s._current_action
    THEN SetActions(Called(s, EnvCall("set_actions", BehaviorOrder[i],
                                      s._current_action[BehaviorOrder[i]])), i + 1)
    ELSE SetActions(s, i + 1)

\* the merge of _step, were it to leave the cumulative rewards out
MergeResult_without_cumulative(s1, ret) ==
    [s1 EXCEPT !._terminations = Upd(@, ret.terminations),
               !._rewards = Upd(@, ret.rewards)]

\* the loop of _step over behavior_specs: fetch, then merge what came back
MergeResult(s1, ret) ==
    [s1 EXCEPT !._terminations = Upd(@, ret.terminations),
               !._rewards = Upd(@, ret.rewards),
               !._cumm_rewards = Upd(@, ret.cumulative_rewards)]

RECURSIVE StepUpdates(_, _)
StepUpdates(s, i) ==
    IF i > Len(BehaviorOrder) THEN s
    ELSE StepUpdates(MergeResult(_batch_update(s, BehaviorOrder[i]),
                                 BatchResult(s, BehaviorOrder[i])),
                     i + 1)

\* _step, were it to advance the simulation before it hands the actions over
_step_advances_first(s, next) ==
    LET s1 == [Called(s, EnvCall("step", NoBehavior, NoBuffer)) EXCEPT !.sim = next]
        s2 == SetActions(s1, 1)
    IN  StepUpdates(_reset_states(s2), 1)

\* _step; `next` is what the simulation holds after its advance
_step(s, next) ==
    LET s1 == SetActions(s, 1)
        s2 == [Called(s1, EnvCall("step", NoBehavior, NoBuffer)) EXCEPT !.sim = next]
    IN  StepUpdates(_reset_states(s2), 1)

\* the loop of _cleanup_agents over _deads_order
RECURSIVE RemoveDeads(_, _)
RemoveDead(s1, deads) ==
    IF Head(deads) \notin Range(s1._agents) THEN Raise(s1, "ValueError")
    ELSE RemoveDeads([s1 EXCEPT !._agents = Sorted(ListRemove(@, Head(deads)))],
                     Tail(deads))

RemoveDeads(s, deads) ==
    IF deads = << >> THEN s
    ELSE IF Head(deads) \notin Range(s._live_agents) THEN Raise(s, "ValueError")
    ELSE RemoveDead([s EXCEPT !._live_agents = ListRemove(@, Head(deads))], deads)

\* _cleanup_agents
_cleanup_agents(s) ==
    IF \E i \in 1..Len(s._agents) : ~FlagsReadable(s, s._agents[i])
    THEN Raise(s, "KeyError")
    ELSE RemoveDeads(s, SelectSeq(s._agents, LAMBDA a : Flagged(s, a)))

\* _assert_loaded, were it to let a closed object through
_assert_loaded_skipped(s) == s

\* _assert_loaded
_assert_loaded(s) == IF s._env THEN s ELSE Raise(s, "NoEnvironmentLoaded")

\* UnityParallelEnv.step, from the last statement back to the first
StepSorted(s3) ==
    IF s3.err # "none" THEN s3 ELSE [s3 EXCEPT !._live_agents = Sorted(@)]

StepIngested(s1, next) ==
    IF s1.err # "none" THEN s1
    ELSE StepSorted(_cleanup_agents(
            _step([s1 EXCEPT !._rewards = [k \in DOMAIN @ |-> 0]], next)))

\* the guard of step, were it never to find the live list empty
StepLoaded_never_empty(s0, actions, next) ==
    IF s0.err # "none" THEN s0
    ELSE IF Len(s0._live_agents) < 0 /\ actions # << >> THEN Raise(s0, "MustReset")
    ELSE StepIngested(ProcessActions(s0, actions), next)

StepLoaded(s0, actions, next) ==
    IF s0.err # "none" THEN s0
    ELSE IF Len(s0._live_agents) <= 0 /\ actions # << >> THEN Raise(s0, "MustReset")
    ELSE StepIngested(ProcessActions(s0, actions), next)

step(s, actions, next) == StepLoaded(_assert_loaded(s), actions, next)

\* UnityPettingzooBaseEnv.reset and UnityParallelEnv.reset; `next` is what the
\* simulation holds after env.reset()
RECURSIVE ResetUpdates(_, _)
ResetUpdates(s, i) ==
    IF i > Len(BehaviorOrder) THEN s
    ELSE ResetUpdates(_batch_update(s, BehaviorOrder[i]), i + 1)

ResetFlags(s3, present) ==
    [Rebind(s3, {"_terminations", "_truncations", "_rewards", "_cumm_rewards"})
        EXCEPT !._live_agents = Sorted(@),
               !._terminations = [a \in present |-> FALSE],
               !._truncations = [a \in present |-> FALSE],
               !._rewards = [a \in present |-> 0],
               !._cumm_rewards = [a \in present |-> 0]]

ResetFetched(s3) == ResetFlags(s3, Range(s3._agents))

\* reset, were it to keep the identities seen before it
ResetLoaded_remembers(s0, next) ==
    IF s0.err # "none" THEN s0
    ELSE ResetFetched(ResetUpdates(
            [Called(_reset_states(s0), EnvCall("reset", NoBehavior, NoBuffer))
                EXCEPT !.sim = next], 1))

ResetLoaded(s0, next) ==
    IF s0.err # "none" THEN s0
    ELSE ResetFetched(ResetUpdates(
            [Called([_reset_states(s0) EXCEPT !._possible_agents = {}],
                    EnvCall("reset", NoBehavior, NoBuffer))
                EXCEPT !.sim = next], 1))

reset(s, next) == ResetLoaded(_assert_loaded(s), next)

\* close, were it to keep the reference to the environment
close_keeps_env(s) ==
    IF s._env THEN Called(s, EnvCall("close", NoBehavior, NoBuffer)) ELSE s

\* close
close(s) ==
    IF s._env THEN [Called(s, EnvCall("close", NoBehavior, NoBuffer)) EXCEPT !._env = FALSE]
    ELSE s

\* the side_channel property
side_channel(s) == _assert_loaded(s)

\* __init__ when env.behavior_specs is still empty: one env.step(), then a
\* _batch_update per behaviour group whose results are dropped
Construct(s, first) ==
    ResetUpdates([Called(s, EnvCall("step", NoBehavior, NoBuffer)) EXCEPT !.sim = first], 1)

\* the read accessors
agents == Sorted(_live_agents)

possible_agents == _possible_agents

\* ------------------------------------------------------------ the caller
ActionEntries ==
    UNION {{<<a, x>> : x \in ActionInputs(_agent_id_to_behavior(a))} : a \in AllAgents}

\* an action mapping, in the order the dict iterates: no key twice
ActionMaps ==
    UNION {{m \in [1..n -> ActionEntries] :
                \A i, j \in 1..n : i # j => m[i][1] # m[j][1]}
           : n \in 0..MaxActions}

\* What a call was given, as the caller sees it when it makes the call:
\*   nonempty    the mapping has an entry
\*   covers      it has a non-null action of the agent's space for every live
\*               agent and an entry for no other identity
\*   not_live    it has an entry for an identity that is not a live agent
\*   not_member  the agent of its first entry whose non-null action is not in
\*               the agent's space (NoAgent: there is none)
NotMember(entry) ==
    /\ entry[2].kind # "none"
    /\ ~Contains(ActionSpace(_agent_id_to_behavior(entry[1])), entry[2])

Given(actions) ==
    LET bad == {i \in 1..Len(actions) : NotMember(actions[i])}
    IN  [nonempty |-> actions # << >>,
         covers |-> /\ {actions[i][1] : i \in 1..Len(actions)} = Range(_live_agents)
                    /\ \A i \in 1..Len(actions) :
                          actions[i][2].kind # "none" /\ ~NotMember(actions[i]),
         not_live |-> \E i \in 1..Len(actions) : actions[i][1] \notin Range(_live_agents),
         not_member |-> IF bad = {} THEN NoAgent
                        ELSE actions[CHOOSE i \in bad : \A j \in bad : i <= j][1]]

NothingGiven ==
    [nonempty |-> FALSE, covers |-> FALSE, not_live |-> FALSE, not_member |-> NoAgent]

\* The call that ran last: its name, the exception it raised ("none": it
\* returned), the agent whose entry raised, what it was given, and the action
\* mapping itself when the call ingested all of it.
Call(s, name, actions, given) ==
    [name |-> name, err |-> s.err, raised_for |-> s.raised_for, given |-> given,
     actions |-> IF s.env_calls = << >> THEN << >> ELSE actions]

\* what reset and step hand to the caller when they return
ReturnedBy(name) ==
    IF name = "step"
    THEN {"_observations", "_rewards", "_terminations", "_truncations", "_infos"}
    ELSE IF name = "reset" THEN {"_observations", "_infos"}
    ELSE {}

\* the mapping object field f referred to when the handler began, as the
\* handler s leaves it
HeldNow(s, f) == IF f \in s.held THEN s[f] ELSE s.left[f]

\* the caller after the handler: the objects it holds that the object still
\* refers to and the ones just returned, and those it held that were changed
Caller(s, name) ==
    [holds |-> s.held \cup (IF s.err = "none" THEN ReturnedBy(name) ELSE {}),
     changed |-> [f \in {g \in caller.holds : HeldNow(s, g) # Self[g]} |->
                     HeldNow(s, f)]]

NothingHeld == [holds |-> {}, changed |-> EmptyDict]

\* the object after a handler, and the call that was made
Install(s, name, actions, given) ==
    /\ _env' = s._env
    /\ _live_agents' = s._live_agents
    /\ _agents' = s._agents
    /\ _possible_agents' = s._possible_agents
    /\ _agent_id_to_index' = s._agent_id_to_index
    /\ _observations' = s._observations
    /\ _terminations' = s._terminations
    /\ _truncations' = s._truncations
    /\ _rewards' = s._rewards
    /\ _cumm_rewards' = s._cumm_rewards
    /\ _infos' = s._infos
    /\ _current_action' = s._current_action
    /\ sim' = s.sim
    /\ env_calls' = s.env_calls
    /\ op' = Call(s, name, actions, given)
    /\ probe' = probe
    /\ caller' = Caller(s, name)

\* A call of the module-level identity helpers of env_helpers.py, outside any
\* wrapper object: the behaviour name and id handed to _behavior_to_agent_id,
\* the identity it returned, and what _agent_id_to_behavior made of that.
NoProbe ==
    [stage |-> "idle", behavior_name |-> << >>, unique_id |-> 0,
     agent_id |-> << >>, behavior |-> << >>]

\* the behaviour names the helpers are tried on: plain names, names with a
\* team suffix, and names that hold the id marker themselves
NameTokens == {"A", "B", "?team=0", "?agent_id="}

BehaviorNames == UNION {[1..n -> NameTokens] : n \in 1..MaxNameLen}

Blank ==
    [_env |-> TRUE, _live_agents |-> << >>, _agents |-> << >>,
     _possible_agents |-> {}, _agent_id_to_index |-> EmptyDict,
     _observations |-> EmptyDict, _terminations |-> EmptyDict,
     _truncations |-> EmptyDict, _rewards |-> EmptyDict,
     _cumm_rewards |-> EmptyDict, _infos |-> EmptyDict,
     _current_action |-> EmptyDict, sim |-> NoSteps,
     env_calls |-> << >>, err |-> "none", raised_for |-> NoAgent,
     held |-> {}, left |-> EmptyDict]

Init ==
    \E s \in {Blank} \cup {Construct(Blank, first) : first \in SimSteps} :
        /\ _env = s._env
        /\ _live_agents = s._live_agents
        /\ _agents = s._agents
        /\ _possible_agents = s._possible_agents
        /\ _agent_id_to_index = s._agent_id_to_index
        /\ _observations = s._observations
        /\ _terminations = s._terminations
        /\ _truncations = s._truncations
        /\ _rewards = s._rewards
        /\ _cumm_rewards = s._cumm_rewards
        /\ _infos = s._infos
        /\ _current_action = s._current_action
        /\ sim = s.sim
        /\ env_calls = s.env_calls
        /\ op = Call(s, "__init__", << >>, NothingGiven)
        /\ probe = NoProbe
        /\ caller = NothingHeld

Reset ==
    \E early \in {reset(Self, sim)} :
        IF early.env_calls = << >>
        THEN Install(early, "reset", << >>, NothingGiven)
        ELSE \E next \in SimSteps :
                \E s \in {reset(Self, next)} : Install(s, "reset", << >>, NothingGiven)

\* a step that fails before the advance never asks the simulation anything
Step ==
    \E actions \in ActionMaps :
        \E early \in {step(Self, actions, sim)} :
            IF early.env_calls = << >>
            THEN Install(early, "step", actions, Given(actions))
            ELSE \E next \in SimSteps :
                    \E s \in {step(Self, actions, next)} : Install(s, "step", actions, Given(actions))

Close == \E s \in {close(Self)} : Install(s, "close", << >>, NothingGiven)

SideChannel == \E s \in {side_channel(Self)} : Install(s, "side_channel", << >>, NothingGiven)

Next == Reset \/ Step \/ Close \/ SideChannel

Spec == Init /\ [][Next]_vars

\* ------------------------------------------------------------ the helpers alone
\* The identity helpers called on their own, on any behaviour name and id.
WrapperIdle ==
    UNCHANGED <<_env, _live_agents, _agents, _possible_agents, _agent_id_to_index,
                _observations, _terminations, _truncations, _rewards,
                _cumm_rewards, _infos, _current_action, sim, env_calls, op,
                caller>>

HelperInit ==
    /\ _env = Blank._env
    /\ _live_agents = Blank._live_agents
    /\ _agents = Blank._agents
    /\ _possible_agents = Blank._possible_agents
    /\ _agent_id_to_index = Blank._agent_id_to_index
    /\ _observations = Blank._observations
    /\ _terminations = Blank._terminations
    /\ _truncations = Blank._truncations
    /\ _rewards = Blank._rewards
    /\ _cumm_rewards = Blank._cumm_rewards
    /\ _infos = Blank._infos
    /\ _current_action = Blank._current_action
    /\ sim = Blank.sim
    /\ env_calls = Blank.env_calls
    /\ op = Call(Blank, "__init__", << >>, NothingGiven)
    /\ caller = NothingHeld
    /\ \E b \in BehaviorNames : \E n \in Ids :
          probe = [NoProbe EXCEPT !.stage = "given", !.behavior_name = b,
                                  !.unique_id = n]

BehaviorToAgentId ==
    /\ probe.stage = "given"
    /\ probe' = [probe EXCEPT
                    !.stage = "identity",
                    !.agent_id = _behavior_to_agent_id(probe.behavior_name,
                                                       probe.unique_id)]
    /\ WrapperIdle

AgentIdToBehavior ==
    /\ probe.stage = "identity"
    /\ probe' = [probe EXCEPT !.stage = "behavior",
                              !.behavior = _agent_id_to_behavior(probe.agent_id)]
    /\ WrapperIdle

HelperNext == BehaviorToAgentId \/ AgentIdToBehavior

HelperSpec == HelperInit /\ [][HelperNext]_vars

\* ------------------------------------------------------------ reading a state
Returned == op.err = "none"

\* the calls the wrapped environment got from the last handler, by name
CallsNamed(calls, name) == {i \in 1..Len(calls) : calls[i].call = name}

\* the last handler advanced the simulation
Advanced == CallsNamed(env_calls, "step") # {}

\* the six per-agent mappings
Mappings ==
    <<_observations, _rewards, _cumm_rewards, _terminations, _truncations, _infos>>

\* the identities of the batches the simulation holds, group after group, the
\* decision batch of a group before its termination batch
RECURSIVE BatchIdentities(_, _)
BatchIdentities(steps, i) ==
    IF i > Len(BehaviorOrder) THEN << >>
    ELSE [k \in 1..Len(steps[BehaviorOrder[i]].decision) |->
            _behavior_to_agent_id(BehaviorOrder[i],
                                  steps[BehaviorOrder[i]].decision[k].agent_id)]
         \o [k \in 1..Len(steps[BehaviorOrder[i]].terminal) |->
            _behavior_to_agent_id(BehaviorOrder[i],
                                  steps[BehaviorOrder[i]].terminal[k].agent_id)]
         \o BatchIdentities(steps, i + 1)

\* the termination-batch entries the simulation holds, as <<identity, entry>>
TerminalNow ==
    UNION {{<<_behavior_to_agent_id(b, sim[b].terminal[k].agent_id), sim[b].terminal[k]>> :
                k \in 1..Len(sim[b].terminal)} : b \in Behaviors}

\* the adapter's own fields are what they were
CoreUnchanged ==
    UNCHANGED <<_live_agents, _agents, _possible_agents, _agent_id_to_index,
                _observations, _terminations, _truncations, _rewards,
                _cumm_rewards, _infos, _current_action, sim>>

\* ------------------------------------------------------------ claims
\* C1: after reset(), a step that supplies a valid action for every live agent
\* and for no other identity returns normally (stated for the first step after
\* a reset that returned).
C1_StepAfterResetReturns ==
    [][(op.name = "reset" /\ Returned /\ op'.name = "step" /\ op'.given.covers)
          => op'.err = "none"]_vars

\* C2: after every reset and every step that returns, the six per-agent
\* mappings have the same key set and every live agent is in it.
C2_SameKeys ==
    (op.name \in {"reset", "step"} /\ Returned)
        => /\ \A i, j \in 1..Len(Mappings) : DOMAIN Mappings[i] = DOMAIN Mappings[j]
           /\ Range(_live_agents) \subseteq DOMAIN _observations

\* C3: every identity in `agents` is in `possible_agents`, and across any step
\* call, returning or raising, `possible_agents` only grows.
C3_Conservation ==
    /\ [](Range(agents) \subseteq possible_agents)
    /\ [][op'.name = "step" => _possible_agents \subseteq _possible_agents']_vars

C3_Witness ==
    /\ op.name = "step"
    /\ Advanced
    /\ Range(agents) # {}
    /\ \E a \in possible_agents : a \notin Range(agents)

\* C4: an agent in the termination batch fetched by a step is reported by that
\* step with its terminal reward and termination flag true and is not in
\* `agents` afterwards; after the following step call it is in neither
\* `agents` nor any per-agent mapping unless the simulation reports it again.
C4_TerminalReportedOnce ==
    /\ []((op.name = "step" /\ Advanced) =>
            \A p \in TerminalNow :
                /\ p[1] \in DOMAIN _rewards /\ _rewards[p[1]] = p[2].reward
                /\ p[1] \in DOMAIN _terminations /\ _terminations[p[1]] = TRUE
                /\ p[1] \in DOMAIN _infos
                /\ p[1] \notin Range(agents))
    /\ [][(op.name = "step" /\ Advanced /\ op'.name = "step") =>
            \A p \in TerminalNow :
                \/ Advanced' /\ p[1] \in Range(BatchIdentities(sim', 1))
                \/ /\ p[1] \notin Range(agents')
                   /\ \A i \in 1..Len(Mappings) : p[1] \notin DOMAIN Mappings'[i]]_vars

\* C5: after reset() returns, `agents` is the sorted list of the identities of
\* the post-reset decision and termination batches of all groups,
\* `possible_agents` is that same set, and every such agent has reward 0,
\* cumulative reward 0 and both flags false.
C5_ResetState ==
    (op.name = "reset" /\ Returned) =>
        /\ agents = Sorted(BatchIdentities(sim, 1))
        /\ IsSorted(agents)
        /\ possible_agents = Range(BatchIdentities(sim, 1))
        /\ \A a \in Range(BatchIdentities(sim, 1)) :
              /\ \A i \in 1..Len(Mappings) : a \in DOMAIN Mappings[i]
              /\ _rewards[a] = 0
              /\ _cumm_rewards[a] = 0
              /\ _terminations[a] = FALSE
              /\ _truncations[a] = FALSE

C5_Witness ==
    /\ op.name = "reset"
    /\ Returned
    /\ Len(agents) >= 2
    /\ TerminalNow # {}
    /\ \E b \in Behaviors : sim[b].decision # << >>

\* the calls of one step call: one set_actions for each of `groups` and for no
\* other group, then the one advance, then only get_steps
StepPattern(calls, groups) ==
    /\ Cardinality(CallsNamed(calls, "step")) = 1
    /\ \A b \in groups :
          Cardinality({i \in CallsNamed(calls, "set_actions") : calls[i].behavior = b}) = 1
    /\ \A i \in CallsNamed(calls, "set_actions") :
          /\ calls[i].behavior \in groups
          /\ \A k \in CallsNamed(calls, "step") : i < k
    /\ \A i \in CallsNamed(calls, "get_steps") :
          \A k \in CallsNamed(calls, "step") : k < i
    /\ \A i \in 1..Len(calls) : calls[i].call \in {"set_actions", "step", "get_steps"}

\* C6 as stated: every step call that gets past action ingestion calls
\* set_actions exactly once for each behaviour group, then advances the
\* simulation exactly once, and every get_steps follows the advance; a step
\* call that does not get that far makes no call at all.
C6_OncePerGroup ==
    op.name = "step" =>
        IF env_calls = << >> THEN TRUE ELSE StepPattern(env_calls, Behaviors)

\* C6 as amended: the groups that get a set_actions are those that have a
\* pending action buffer when step is called: every group once a reset has
\* returned (buffers are never dropped), none on an object that has fetched
\* no batch yet.
C6_OncePerBufferedGroup ==
    [][/\ DOMAIN _current_action \subseteq DOMAIN _current_action'
       /\ (op'.name = "reset" /\ op'.err = "none")
             => DOMAIN _current_action' = Behaviors
       /\ (op'.name = "step" /\ env_calls' # << >>)
             => StepPattern(env_calls', DOMAIN _current_action)]_vars

C6_Witness ==
    /\ op.name = "step"
    /\ StepPattern(env_calls, Behaviors)
    /\ op.actions # << >>
    /\ CallsNamed(env_calls, "get_steps") # {}

C8_NotLiveFails ==
    (op.name = "step" /\ op.given.not_live) => (op.err # "none" /\ ~Advanced)

C8_Witness ==
    /\ op.name = "step"
    /\ op.given.not_live
    /\ op.err = "KeyError"
    /\ _live_agents # << >>
    /\ op.raised_for # NoAgent
    /\ op.raised_for \notin Range(_live_agents)

\* C9 as stated: step with a non-empty action mapping and an empty live list
\* fails with the must-reset error and changes nothing; step with an empty
\* mapping never raises that error.
C9_MustReset ==
    [][/\ (op'.name = "step" /\ op'.given.nonempty /\ _live_agents = << >>)
            => (op'.err = "MustReset" /\ env_calls' = << >> /\ CoreUnchanged)
       /\ (op'.name = "step" /\ ~op'.given.nonempty) => op'.err # "MustReset"]_vars

\* C9 as amended: the same, on an environment that is loaded.
C9_MustResetLoaded ==
    [][/\ (op'.name = "step" /\ op'.given.nonempty /\ _live_agents = << >> /\ _env)
            => (op'.err = "MustReset" /\ env_calls' = << >> /\ CoreUnchanged
                /\ UNCHANGED _env)
       /\ (op'.name = "step" /\ ~op'.given.nonempty) => op'.err # "MustReset"]_vars

\* must-reset was raised on an object that holds mappings of agents that ended
C9_Witness ==
    /\ op.name = "step"
    /\ op.err = "MustReset"
    /\ DOMAIN _terminations # {}

\* C10: after close(), reset, step and side_channel fail with "No environment
\* loaded", call nothing on the environment and change none of the fields.
C10_Closed ==
    [][(~_env /\ op'.name \in {"reset", "step", "side_channel"})
          => /\ op'.err = "NoEnvironmentLoaded"
             /\ env_calls' = << >>
             /\ CoreUnchanged
             /\ UNCHANGED _env]_vars

C10_Witness ==
    /\ ~_env
    /\ op.name = "step"
    /\ op.given.nonempty
    /\ op.err = "NoEnvironmentLoaded"
    /\ _live_agents # << >>
    /\ \E b \in Behaviors : _current_action[b].continuous # << >>

\* C11: the environment's close is invoked at most once over any sequence of
\* operations: only a close() made while the environment is held invokes it,
\* once, and releases the environment for good; every later close() returns
\* without raising, calls nothing and changes nothing.
C11_CloseOnce ==
    [][/\ Cardinality(CallsNamed(env_calls', "close"))
            = (IF op'.name = "close" /\ _env THEN 1 ELSE 0)
       /\ op'.name = "close" => (op'.err = "none" /\ ~_env')
       /\ ~_env => ~_env'
       /\ (op'.name = "close" /\ ~_env) => (env_calls' = << >> /\ CoreUnchanged)]_vars

\* a close() made after the environment was released
C11_Witness ==
    /\ op.name = "close"
    /\ ~_env
    /\ env_calls = << >>
    /\ _live_agents # << >>

\* C12: for any behaviour name b and any id n,
\* _agent_id_to_behavior(_behavior_to_agent_id(b, n)) = b.
C12_RoundTrip ==
    probe.stage = "behavior" => probe.behavior = probe.behavior_name

\* C13: for the decision and termination batch of a behaviour group, each with
\* unique ids, the agent list _unwrap_batch_steps returns has no duplicates,
\* has length decision-batch size + termination-batch size and lists the
\* decision-batch identities first, each batch in its own order (stated of the
\* batches the simulation holds, which the last fetch translated).
C13_AgentList ==
    \A b \in Behaviors :
        LET u == _unwrap_batch_steps(sim[b], b, FALSE)
            nd == Len(sim[b].decision)
            nt == Len(sim[b].terminal)
        IN  /\ \A i, j \in 1..Len(u.agents) : i # j => u.agents[i] # u.agents[j]
            /\ Len(u.agents) = nd + nt
            /\ \A i \in 1..nd :
                  u.agents[i] = _behavior_to_agent_id(b, sim[b].decision[i].agent_id)
            /\ \A i \in 1..nt :
                  u.agents[nd + i] = _behavior_to_agent_id(b, sim[b].terminal[i].agent_id)

\* C14: when step ingests an entry for an agent whose termination or
\* truncation flag is true, it removes the agent and its entries and goes on
\* without raising: no step raises at the entry of such an agent, unless the
\* entry's action is invalid (validation comes before the flags).
C14_FlaggedEntryIngested ==
    [][(/\ op'.name = "step"
        /\ op'.raised_for \in DOMAIN _terminations
        /\ \/ _terminations[op'.raised_for]
           \/ /\ op'.raised_for \in DOMAIN _truncations
              /\ _truncations[op'.raised_for])
          => op'.err = "InvalidAction"]_vars

\* row i of a batched action
RowOf(action, i) == [continuous |-> action.continuous[i], discrete |-> action.discrete[i]]

\* the row of a buffer of group b nothing was written to
ZeroRow(b) == RowOf(_create_empty_actions(b, 1), 1)

\* C15: every batched action passed to set_actions holds, at each slot, zero
\* or what the step call that passes it wrote there for an action submitted
\* in that same call for an agent of the group; an action ingested by a call
\* that failed before the advance is not delivered by a later call.
C15_NoStaleAction ==
    op.name = "step" =>
        \A k \in CallsNamed(env_calls, "set_actions") :
            \A i \in 1..Len(env_calls[k].action.continuous) :
                \/ RowOf(env_calls[k].action, i) = ZeroRow(env_calls[k].behavior)
                \/ \E j \in 1..Len(op.actions) :
                      /\ _agent_id_to_behavior(op.actions[j][1]) = env_calls[k].behavior
                      /\ op.actions[j][2].kind # "none"
                      /\ RowOf(env_calls[k].action, i)
                            = ActionRows(ActionSpace(env_calls[k].behavior),
                                         op.actions[j][2],
                                         behavior_specs[env_calls[k].behavior])

\* C16: after every reset, and after every step that reached the advance,
\* returning or raising, the pending action buffer of each behaviour group has
\* as many rows as the decision batch last fetched for the group, each row as
\* wide as the group's action spec says, and every entry of it is zero.
C16_BufferFresh ==
    ((op.name = "reset" /\ Returned) \/ (op.name = "step" /\ Advanced)) =>
        \A b \in Behaviors :
            /\ b \in DOMAIN _current_action
            /\ Len(_current_action[b].continuous) = Len(sim[b].decision)
            /\ Len(_current_action[b].discrete) = Len(sim[b].decision)
            /\ \A i \in 1..Len(sim[b].decision) :
                  /\ Len(_current_action[b].continuous[i]) = behavior_specs[b].continuous_size
                  /\ Len(_current_action[b].discrete[i]) = Len(behavior_specs[b].discrete_branches)
                  /\ \A j \in 1..Len(_current_action[b].continuous[i]) :
                        _current_action[b].continuous[i][j] = 0
                  /\ \A j \in 1..Len(_current_action[b].discrete[i]) :
                        _current_action[b].discrete[i][j] = 0

\* a step delivered a row that is not zero, then fetched a decision batch of a
\* different size for that group, and raised afterwards
C16_Witness ==
    /\ op.name = "step"
    /\ Advanced
    /\ ~Returned
    /\ \E k \in CallsNamed(env_calls, "set_actions") :
          /\ \E i \in 1..Len(env_calls[k].action.continuous) :
                RowOf(env_calls[k].action, i) # ZeroRow(env_calls[k].behavior)
          /\ Len(sim[env_calls[k].behavior].decision)
                # Len(env_calls[k].action.continuous)
          /\ Len(sim[env_calls[k].behavior].decision) > 0

\* an action as a row of its group's buffer, component by component
ActionAsRow(space, action) ==
    CASE space.kind = "Discrete" -> [continuous |-> << >>, discrete |-> <<action.scalar>>]
      [] space.kind = "MultiDiscrete" -> [continuous |-> << >>, discrete |-> action.vector]
      [] OTHER -> [continuous |-> action.vector, discrete |-> << >>]

\* C17: ingesting a valid action for a live agent that is not flagged sets the
\* row at the agent's decision-batch index in its group's pending buffer to the
\* action, component by component, and leaves every other row of every buffer
\* as it was (read off the buffers a step hands to set_actions once it has
\* ingested all its entries).
C17_RowWritten ==
    [][(op'.name = "step" /\ env_calls' # << >>) =>
          \A k \in CallsNamed(env_calls', "set_actions") :
              \A i \in 1..Len(env_calls'[k].action.continuous) :
                  LET b == env_calls'[k].behavior
                      mine == {j \in 1..Len(op'.actions) :
                                  /\ op'.actions[j][2].kind # "none"
                                  /\ op'.actions[j][1] \in DOMAIN _agent_id_to_index
                                  /\ _agent_id_to_behavior(op'.actions[j][1]) = b
                                  /\ _agent_id_to_index[op'.actions[j][1]] = i - 1}
                  IN  IF mine = {}
                      THEN RowOf(env_calls'[k].action, i) = RowOf(_current_action[b], i)
                      ELSE \A j \in mine :
                              RowOf(env_calls'[k].action, i)
                                  = ActionAsRow(ActionSpace(b), op'.actions[j][2])]_vars

\* what the claim expects for the agent with id n of group b: the bare
\* payload of the only sensor, or the list of the payloads of all sensors
SensorsOf(b, n) ==
    IF behavior_specs[b].sensors = 1 THEN SensorPayload(b, 1, n)
    ELSE [k \in 1..behavior_specs[b].sensors |-> SensorPayload(b, k, n)]

\* C18: in what _unwrap_batch_steps returns for a group, the observation of a
\* decision-batch or termination-batch agent (with action masks: the
\* `observation` field of its {observation, action_mask} pair) is the bare
\* payload for a single-sensor group and the ordered list of all sensors'
\* payloads for a multi-sensor group (stated of the batches the simulation
\* holds, which the last fetch translated).
C18_ObsCollapsed ==
    \A b \in Behaviors :
        LET u == _unwrap_batch_steps(sim[b], b, FALSE)
            decision_ids == {sim[b].decision[i].agent_id : i \in 1..Len(sim[b].decision)}
            terminal_ids == {sim[b].terminal[i].agent_id : i \in 1..Len(sim[b].terminal)}
        IN  /\ \A n \in decision_ids :
                  IF HasActionMask(b)
                  THEN u.obs[_behavior_to_agent_id(b, n)].observation = SensorsOf(b, n)
                  ELSE u.obs[_behavior_to_agent_id(b, n)] = SensorsOf(b, n)
            /\ \A n \in terminal_ids \ decision_ids :
                  u.obs[_behavior_to_agent_id(b, n)] = SensorsOf(b, n)

\* C19: after every reset and every step that returns, each identity in
\* `agents` has an entry in the agent-index map, the index is smaller than the
\* row count of its group's pending action buffer, and no two live agents of
\* one group share an index.
C19_LiveAgentsIndexed ==
    (op.name \in {"reset", "step"} /\ Returned) =>
        /\ \A a \in Range(agents) :
              /\ a \in DOMAIN _agent_id_to_index
              /\ _agent_id_to_behavior(a) \in DOMAIN _current_action
              /\ _agent_id_to_index[a]
                    < Len(_current_action[_agent_id_to_behavior(a)].continuous)
        /\ \A a1, a2 \in Range(agents) :
              (a1 # a2 /\ _agent_id_to_behavior(a1) = _agent_id_to_behavior(a2))
                  => _agent_id_to_index[a1] # _agent_id_to_index[a2]

\* C20: after every reset and every step, returning or raising, the
\* cumulative-reward mapping equals the reward mapping entry for entry; over
\* two steps in a row that reached the simulation, the cumulative reward of an
\* agent reported by both is its latest reward, not the sum.
C20_CumulativeIsLatest ==
    /\ [](op.name \in {"reset", "step"} => _cumm_rewards = _rewards)
    /\ [][(op.name = "step" /\ Advanced /\ op'.name = "step" /\ Advanced') =>
            \A a \in (DOMAIN _cumm_rewards) \cap (DOMAIN _cumm_rewards') :
                /\ _cumm_rewards'[a] = _rewards'[a]
                /\ _cumm_rewards[a] # 0
                      => _cumm_rewards'[a] # _cumm_rewards[a] + _rewards'[a]]_vars

\* a step that handed an agent's action over reported that agent again, with
\* a reward that is not zero, and raised afterwards
C20_Witness ==
    /\ op.name = "step"
    /\ Advanced
    /\ ~Returned
    /\ \E j \in 1..Len(op.actions) :
          /\ op.actions[j][1] \in DOMAIN _cumm_rewards
          /\ _cumm_rewards[op.actions[j][1]] # 0
          /\ _cumm_rewards[op.actions[j][1]] = _rewards[op.actions[j][1]]

\* C21: a mapping returned to the caller by reset or step is never changed
\* afterwards by the adapter: every later step or reset leaves each of the
\* observations, rewards, terminations, truncations and infos mappings the
\* caller holds from earlier calls with exactly the keys and values it had
\* before that call.
C21_ReturnedMappingsKept ==
    [][op'.name \in {"reset", "step"} =>
          \A f \in caller.holds : f \notin DOMAIN caller'.changed]_vars

====
